---- MODULE Spec2Model ----
(***************************************************************************)
(* Model of hdiff (src/src/lib.rs): Paul Heckel's diff algorithm as a      *)
(* six-pass pipeline over two slices.  Slices and vectors are TLA+         *)
(* sequences; the code's 0-based indices are kept (At/Put translate), and  *)
(* Option<usize> is None (-1) or the index itself.  Every slice/vector     *)
(* index, every HashMap index and every usize subtraction of the code is   *)
(* checked in the model: a failed check is a panic (ok = FALSE).           *)
(***************************************************************************)
EXTENDS Integers, Sequences, FiniteSets, TLC

\* ---- bounds of the model ----
MaxLen == 4
NumElems == 3

Elems == 1..NumElems

\* ---- Option<usize>, 0-based vectors ----
None == -1

At(a, i) == a[i + 1]

Put(a, i, v) == [a EXCEPT ![i + 1] = v]

InBounds(a, i) == i >= 0 /\ i < Len(a)

\* ---- enum Patch ----
Create(i) == <<"Create", i>>

Update(i) == <<"Update", i>>

Move(j, i) == <<"Move", j, i>>

Delete(i) == <<"Delete", i>>

\* ---- HashMap<&T, TableEntry> ----
EmptyTable == [x \in {} |-> [nc |-> 0, oc |-> 0, olno |-> 0]]

TableInsert(table, x, e) ==
    [y \in (DOMAIN table) \cup {x} |-> IF y = x THEN e ELSE table[y]]

\* ---- pass 1: count the copies of each line of the new file ----
pass1Step(new, table, k) ==
    LET x == At(new, k) IN
    IF x \in DOMAIN table
    THEN [table EXCEPT ![x].nc = @ + 1]
    ELSE TableInsert(table, x, [nc |-> 1, oc |-> 0, olno |-> 0])

RECURSIVE pass1Loop(_, _, _)
pass1Loop(new, table, k) ==
    IF k >= Len(new) THEN table
    ELSE pass1Loop(new, pass1Step(new, table, k), k + 1)

pass1(new, table) == pass1Loop(new, table, 0)

\* ---- pass 2: count the copies in the old file, remember the line number ----
pass2Step(old, table, i) ==
    LET x == At(old, i) IN
    IF x \in DOMAIN table
    THEN [table EXCEPT ![x].oc = @ + 1, ![x].olno = i]
    ELSE TableInsert(table, x, [nc |-> 0, oc |-> 1, olno |-> i])

RECURSIVE pass2Loop(_, _, _)
pass2Loop(old, table, i) ==
    IF i >= Len(old) THEN table
    ELSE pass2Loop(old, pass2Step(old, table, i), i + 1)

pass2(old, table) == pass2Loop(old, table, 0)

\* ---- the working arrays handed from pass to pass; ok = FALSE after a panic ----
Arrays(oa, na) == [oa |-> oa, na |-> na, ok |-> TRUE]

Panic(st) == [st EXCEPT !.ok = FALSE]

\* ---- pass 3: lines with NC = OC = 1 are the same line ----
pass3Step_NoOcCheck(new, table, st, i) ==
    IF ~st.ok THEN st
    ELSE IF ~InBounds(new, i) \/ At(new, i) \notin DOMAIN table THEN Panic(st)
    ELSE LET tx == table[At(new, i)] IN
         IF tx.nc = 1
         THEN IF ~InBounds(st.na, i) \/ ~InBounds(st.oa, tx.olno) THEN Panic(st)
              ELSE [st EXCEPT !.na = Put(@, i, tx.olno),
                              !.oa = Put(@, tx.olno, i)]
         ELSE st

pass3Step_NoUniqueCheck(new, table, st, i) ==
    IF ~st.ok THEN st
    ELSE IF ~InBounds(new, i) \/ At(new, i) \notin DOMAIN table THEN Panic(st)
    ELSE LET tx == table[At(new, i)] IN
         IF tx.nc = tx.oc
         THEN IF ~InBounds(st.na, i) \/ ~InBounds(st.oa, tx.olno) THEN Panic(st)
              ELSE [st EXCEPT !.na = Put(@, i, tx.olno),
                              !.oa = Put(@, tx.olno, i)]
         ELSE st

pass3Step(new, table, st, i) ==
    IF ~st.ok THEN st
    ELSE IF ~InBounds(new, i) \/ At(new, i) \notin DOMAIN table THEN Panic(st)
    ELSE LET tx == table[At(new, i)] IN
         IF tx.nc = 1 /\ tx.nc = tx.oc
         THEN IF ~InBounds(st.na, i) \/ ~InBounds(st.oa, tx.olno) THEN Panic(st)
              ELSE [st EXCEPT !.na = Put(@, i, tx.olno),
                              !.oa = Put(@, tx.olno, i)]
         ELSE st

RECURSIVE pass3Loop(_, _, _, _)
pass3Loop(new, table, st, i) ==
    IF i >= Len(st.na) THEN st
    ELSE pass3Loop(new, table, pass3Step(new, table, st, i), i + 1)

pass3(new, table, oa, na) == pass3Loop(new, table, Arrays(oa, na), 0)

\* ---- pass 4: extend the found pairs forward, ascending i ----
\* The && chain of the code short-circuits; each IF below is one conjunct,
\* preceded by the bounds check of the index it evaluates.
pass4Step_NoBound(old, new, st, i) ==
    IF ~st.ok THEN st
    ELSE IF ~InBounds(st.na, i) THEN Panic(st)
    ELSE LET j == At(st.na, i) IN
         IF j = None THEN st
         ELSE IF ~InBounds(st.na, i + 1) THEN Panic(st)
         ELSE IF At(st.na, i + 1) # None THEN st
         ELSE IF ~InBounds(st.oa, j + 1) THEN Panic(st)
         ELSE IF At(st.oa, j + 1) # None THEN st
         ELSE IF ~InBounds(new, i + 1) \/ ~InBounds(old, j + 1) THEN Panic(st)
         ELSE IF At(new, i + 1) # At(old, j + 1) THEN st
         ELSE [st EXCEPT !.na = Put(@, i + 1, j + 1),
                         !.oa = Put(@, j + 1, i + 1)]

pass4Step_NoEq(old, new, st, i) ==
    IF ~st.ok THEN st
    ELSE IF ~InBounds(st.na, i) THEN Panic(st)
    ELSE LET j == At(st.na, i) IN
         IF j = None THEN st
         ELSE IF ~(j + 1 < Len(st.oa)) THEN st
         ELSE IF ~InBounds(st.na, i + 1) THEN Panic(st)
         ELSE IF At(st.na, i + 1) # None THEN st
         ELSE IF ~InBounds(st.oa, j + 1) THEN Panic(st)
         ELSE IF At(st.oa, j + 1) # None THEN st
         ELSE [st EXCEPT !.na = Put(@, i + 1, j + 1),
                         !.oa = Put(@, j + 1, i + 1)]

pass4Step(old, new, st, i) ==
    IF ~st.ok THEN st
    ELSE IF ~InBounds(st.na, i) THEN Panic(st)
    ELSE LET j == At(st.na, i) IN
         IF j = None THEN st
         ELSE IF ~(j + 1 < Len(st.oa)) THEN st
         ELSE IF ~InBounds(st.na, i + 1) THEN Panic(st)
         ELSE IF At(st.na, i + 1) # None THEN st
         ELSE IF ~InBounds(st.oa, j + 1) THEN Panic(st)
         ELSE IF At(st.oa, j + 1) # None THEN st
         ELSE IF ~InBounds(new, i + 1) \/ ~InBounds(old, j + 1) THEN Panic(st)
         ELSE IF At(new, i + 1) # At(old, j + 1) THEN st
         ELSE [st EXCEPT !.na = Put(@, i + 1, j + 1),
                         !.oa = Put(@, j + 1, i + 1)]

RECURSIVE pass4Loop(_, _, _, _, _)
pass4Loop(old, new, st, i, end) ==
    IF i >= end THEN st
    ELSE pass4Loop(old, new, pass4Step(old, new, st, i), i + 1, end)

pass4(old, new, oa, na) ==
    IF Len(na) = 0 THEN Arrays(oa, na)
    ELSE pass4Loop(old, new, Arrays(oa, na), 0, Len(na) - 1)

\* ---- pass 5: extend the found pairs backward, descending i ----
pass5Step_OffByOne(old, new, st, i) ==
    IF ~st.ok THEN st
    ELSE IF ~InBounds(st.na, i) THEN Panic(st)
    ELSE LET j == At(st.na, i) IN
         IF j = None THEN st
         ELSE IF ~(j > 1) THEN st
         ELSE IF ~InBounds(st.na, i - 1) THEN Panic(st)
         ELSE IF At(st.na, i - 1) # None THEN st
         ELSE IF ~InBounds(st.oa, j - 1) THEN Panic(st)
         ELSE IF At(st.oa, j - 1) # None THEN st
         ELSE IF ~InBounds(new, i - 1) \/ ~InBounds(old, j - 1) THEN Panic(st)
         ELSE IF At(new, i - 1) # At(old, j - 1) THEN st
         ELSE [st EXCEPT !.na = Put(@, i - 1, j - 1),
                         !.oa = Put(@, j - 1, i - 1)]

pass5Step(old, new, st, i) ==
    IF ~st.ok THEN st
    ELSE IF ~InBounds(st.na, i) THEN Panic(st)
    ELSE LET j == At(st.na, i) IN
         IF j = None THEN st
         ELSE IF ~(j > 0) THEN st
         ELSE IF ~InBounds(st.na, i - 1) THEN Panic(st)
         ELSE IF At(st.na, i - 1) # None THEN st
         ELSE IF ~InBounds(st.oa, j - 1) THEN Panic(st)
         ELSE IF At(st.oa, j - 1) # None THEN st
         ELSE IF ~InBounds(new, i - 1) \/ ~InBounds(old, j - 1) THEN Panic(st)
         ELSE IF At(new, i - 1) # At(old, j - 1) THEN st
         ELSE [st EXCEPT !.na = Put(@, i - 1, j - 1),
                         !.oa = Put(@, j - 1, i - 1)]

RECURSIVE pass5Loop(_, _, _, _)
pass5Loop(old, new, st, i) ==
    IF i < 1 THEN st
    ELSE pass5Loop(old, new, pass5Step(old, new, st, i), i - 1)

pass5(old, new, oa, na) == pass5Loop(old, new, Arrays(oa, na), Len(na) - 1)

\* ---- pass 6: list the differences ----
\* first loop: Delete(i) for every unmatched old line; delete_offsets[i] is
\* the number of deletions before old line i
pass6OldStep(oa, st, i) ==
    LET pushed == [st EXCEPT !.delete_offsets = Append(@, st.offset)] IN
    IF At(oa, i) = None
    THEN [pushed EXCEPT !.result = Append(@, Delete(i)), !.offset = @ + 1]
    ELSE pushed

RECURSIVE pass6OldLoop(_, _, _)
pass6OldLoop(oa, st, i) ==
    IF i >= Len(oa) THEN st
    ELSE pass6OldLoop(oa, pass6OldStep(oa, st, i), i + 1)

\* second loop: Create / Update / Move per new line; x is na[i].  The usize
\* expression j + offset - delete_offsets[j] panics when it would go below 0.
pass6NewStep_DeleteOffsetAtI(old, new, delete_offsets, st, i, x) ==
    IF ~st.ok THEN st
    ELSE IF x = None
    THEN [st EXCEPT !.result = Append(@, Create(i)), !.offset = @ + 1]
    ELSE LET j == x IN
         IF ~InBounds(old, j) \/ ~InBounds(new, i) THEN Panic(st)
         ELSE LET r1 == IF At(old, j) # At(new, i)
                        THEN Append(st.result, Update(i))
                        ELSE st.result
              IN
              IF ~InBounds(delete_offsets, i) THEN Panic(st)
              ELSE IF j + st.offset < At(delete_offsets, i) THEN Panic(st)
              ELSE IF j + st.offset - At(delete_offsets, i) # i
                   THEN [st EXCEPT !.result = Append(r1, Move(j, i))]
                   ELSE [st EXCEPT !.result = r1]

pass6NewStep_SwappedMove(old, new, delete_offsets, st, i, x) ==
    IF ~st.ok THEN st
    ELSE IF x = None
    THEN [st EXCEPT !.result = Append(@, Create(i)), !.offset = @ + 1]
    ELSE LET j == x IN
         IF ~InBounds(old, j) \/ ~InBounds(new, i) THEN Panic(st)
         ELSE LET r1 == IF At(old, j) # At(new, i)
                        THEN Append(st.result, Update(i))
                        ELSE st.result
              IN
              IF ~InBounds(delete_offsets, j) THEN Panic(st)
              ELSE IF j + st.offset < At(delete_offsets, j) THEN Panic(st)
              ELSE IF j + st.offset - At(delete_offsets, j) # i
                   THEN [st EXCEPT !.result = Append(r1, Move(i, j))]
                   ELSE [st EXCEPT !.result = r1]

pass6NewStep_NoCreateOffset(old, new, delete_offsets, st, i, x) ==
    IF ~st.ok THEN st
    ELSE IF x = None
    THEN [st EXCEPT !.result = Append(@, Create(i)), !.offset = @ + 1]
    ELSE LET j == x IN
         IF ~InBounds(old, j) \/ ~InBounds(new, i) THEN Panic(st)
         ELSE LET r1 == IF At(old, j) # At(new, i)
                        THEN Append(st.result, Update(i))
                        ELSE st.result
              IN
              IF ~InBounds(delete_offsets, j) THEN Panic(st)
              ELSE IF j < At(delete_offsets, j) THEN Panic(st)
              ELSE IF j - At(delete_offsets, j) # i
                   THEN [st EXCEPT !.result = Append(r1, Move(j, i))]
                   ELSE [st EXCEPT !.result = r1]

pass6NewStep(old, new, delete_offsets, st, i, x) ==
    IF ~st.ok THEN st
    ELSE IF x = None
    THEN [st EXCEPT !.result = Append(@, Create(i)), !.offset = @ + 1]
    ELSE LET j == x IN
         IF ~InBounds(old, j) \/ ~InBounds(new, i) THEN Panic(st)
         ELSE LET r1 == IF At(old, j) # At(new, i)
                        THEN Append(st.result, Update(i))
                        ELSE st.result
              IN
              IF ~InBounds(delete_offsets, j) THEN Panic(st)
              ELSE IF j + st.offset < At(delete_offsets, j) THEN Panic(st)
              ELSE IF j + st.offset - At(delete_offsets, j) # i
                   THEN [st EXCEPT !.result = Append(r1, Move(j, i))]
                   ELSE [st EXCEPT !.result = r1]

RECURSIVE pass6NewLoop(_, _, _, _, _, _)
pass6NewLoop(old, new, na, delete_offsets, st, i) ==
    IF i >= Len(na) THEN st
    ELSE pass6NewLoop(old, new, na, delete_offsets,
                      pass6NewStep(old, new, delete_offsets, st, i, At(na, i)),
                      i + 1)

pass6_CreatesFirst(old, new, oa, na) ==
    LET d == pass6OldLoop(oa, [result |-> <<>>, delete_offsets |-> <<>>,
                               offset |-> 0], 0)
        n == pass6NewLoop(old, new, na, d.delete_offsets,
                          [result |-> <<>>, offset |-> 0, ok |-> TRUE], 0)
    IN [result |-> n.result \o d.result, ok |-> n.ok]

pass6(old, new, oa, na) ==
    LET d == pass6OldLoop(oa, [result |-> <<>>, delete_offsets |-> <<>>,
                               offset |-> 0], 0)
        n == pass6NewLoop(old, new, na, d.delete_offsets,
                          [result |-> d.result, offset |-> 0, ok |-> TRUE], 0)
    IN [result |-> n.result, ok |-> n.ok]

\* ---- diff as a function of its two arguments ----
NoneArray(n) == [k \in 1..n |-> None]

\* the correspondence arrays after passes 1 to 5
matching(old, new) ==
    LET t  == pass2(old, pass1(new, EmptyTable))
        s3 == pass3(new, t, NoneArray(Len(old)), NoneArray(Len(new)))
        s4 == IF s3.ok THEN pass4(old, new, s3.oa, s3.na) ELSE s3
        s5 == IF s4.ok THEN pass5(old, new, s4.oa, s4.na) ELSE s4
    IN s5

diffRun(old, new) ==
    LET m == matching(old, new) IN
    IF m.ok THEN pass6(old, new, m.oa, m.na)
    ELSE [result |-> <<>>, ok |-> FALSE]

diff(old, new) == diffRun(old, new).result

\* ---- one call of diff as a state machine, one action per pass ----
VARIABLES old, new, table, oa, na, result, pc

vars == <<old, new, table, oa, na, result, pc>>

Inputs == UNION {[1..n -> Elems] : n \in 0..MaxLen}

Init ==
    /\ old \in Inputs
    /\ new \in Inputs
    /\ table = EmptyTable
    /\ na = NoneArray(Len(new))
    /\ oa = NoneArray(Len(old))
    /\ result = <<>>
    /\ pc = "pass1"

Pass1 ==
    /\ pc = "pass1"
    /\ table' = pass1(new, table)
    /\ pc' = "pass2"
    /\ UNCHANGED <<old, new, oa, na, result>>

Pass2 ==
    /\ pc = "pass2"
    /\ table' = pass2(old, table)
    /\ pc' = "pass3"
    /\ UNCHANGED <<old, new, oa, na, result>>

\* pass 3 consumes the table; no later pass reads it
Pass3 ==
    /\ pc = "pass3"
    /\ LET st == pass3(new, table, oa, na) IN
         /\ oa' = st.oa
         /\ na' = st.na
         /\ pc' = IF st.ok THEN "pass4" ELSE "panic"
    /\ UNCHANGED <<old, new, table, result>>

Pass4 ==
    /\ pc = "pass4"
    /\ LET st == pass4(old, new, oa, na) IN
         /\ oa' = st.oa
         /\ na' = st.na
         /\ pc' = IF st.ok THEN "pass5" ELSE "panic"
    /\ UNCHANGED <<old, new, table, result>>

Pass5 ==
    /\ pc = "pass5"
    /\ LET st == pass5(old, new, oa, na) IN
         /\ oa' = st.oa
         /\ na' = st.na
         /\ pc' = IF st.ok THEN "pass6" ELSE "panic"
    /\ UNCHANGED <<old, new, table, result>>

Pass6 ==
    /\ pc = "pass6"
    /\ LET r == pass6(old, new, oa, na) IN
         /\ result' = r.result
         /\ pc' = IF r.ok THEN "done" ELSE "panic"
    /\ UNCHANGED <<old, new, table, oa, na>>

Next == Pass1 \/ Pass2 \/ Pass3 \/ Pass4 \/ Pass5 \/ Pass6

Spec == Init /\ [][Next]_vars

TypeOK ==
    /\ old \in Inputs /\ new \in Inputs
    /\ Len(oa) = Len(old) /\ Len(na) = Len(new)
    /\ \A k \in 1..Len(oa) : oa[k] \in {None} \cup (0..(Len(new) - 1))
    /\ \A k \in 1..Len(na) : na[k] \in {None} \cup (0..(Len(old) - 1))
    /\ pc \in {"pass1", "pass2", "pass3", "pass4", "pass5", "pass6", "done", "panic"}

\* ---- vocabulary of the properties ----
Range(s) == {s[k] : k \in 1..Len(s)}

Distinct(s) == \A a, b \in 1..Len(s) : a # b => s[a] # s[b]

Finished == pc = "done"

Matched == pc \in {"pass4", "pass5", "pass6", "done"}

Saturated == pc \in {"pass6", "done"}

Kind(p) == p[1]

HasKind(r, k) == \E a \in 1..Len(r) : Kind(r[a]) = k

\* the new index a Create, Update or Move carries
NewIndex(p) == IF Kind(p) = "Move" THEN p[3] ELSE p[2]

\* a matched new line whose element is not a unique line: only the adjacency
\* passes can have matched it
AdjacencyMatched(i) ==
    /\ At(na, i) # None
    /\ Cardinality({k \in 1..Len(new) : new[k] = At(new, i)}) > 1

AllDeletes(s) == [k \in 1..Len(s) |-> Delete(k - 1)]

AllCreates(s) == [k \in 1..Len(s) |-> Create(k - 1)]

\* C1: Identity - for every sequence S, diff(S, S) is the empty Difference.
C1_Identity == (Finished /\ old = new) => result = <<>>

\* C2: when old and new share no element (in particular when either is
\* empty), diff is Delete(0..len(old)-1) followed by Create(0..len(new)-1).
C2_DisjointDeletesThenCreates ==
    (Finished /\ Range(old) \cap Range(new) = {})
        => result = AllDeletes(old) \o AllCreates(new)

C2_Witness ==
    /\ Finished
    /\ Range(old) \cap Range(new) = {}
    /\ Len(old) >= 2 /\ Len(new) >= 1
    /\ ~Distinct(old)
    /\ result = AllDeletes(old) \o AllCreates(new)

\* C3: old pairwise distinct and new a permutation of old: diff is exactly
\* Move(j, i), ascending in i, for the new indices i whose element sits at an
\* old index j # i; no Delete, Create or Update.
IsPermutation == Distinct(old) /\ Distinct(new) /\ Len(old) = Len(new)
                 /\ Range(old) = Range(new)

OldIndexOf(x) == CHOOSE j \in 0..(Len(old) - 1) : At(old, j) = x

IsRealMove(m) == m[2] # m[3]

C3_PermutationMoves ==
    (Finished /\ IsPermutation)
        => result = SelectSeq([k \in 1..Len(new) |-> Move(OldIndexOf(new[k]), k - 1)],
                              IsRealMove)

C3_Witness ==
    /\ Finished /\ IsPermutation
    /\ Len(old) = 3
    /\ Len(result) = 2

\* C4: old pairwise distinct, new made from old by removing elements and
\* inserting elements foreign to old, the kept ones in their old order: diff is
\* Delete(j) for the removed j ascending, then Create(i) for the inserted i
\* ascending; no Move, no Update.
InOld(x) == x \in Range(old)

InNew(x) == x \in Range(new)

IsDeletePatch(p) == Kind(p) = "Delete" /\ ~InNew(At(old, p[2]))

IsCreatePatch(p) == Kind(p) = "Create" /\ ~InOld(At(new, p[2]))

RemoveInsertOnly == Distinct(old) /\ SelectSeq(new, InOld) = SelectSeq(old, InNew)

C4_RemoveInsert ==
    (Finished /\ RemoveInsertOnly)
        => result = SelectSeq(AllDeletes(old), IsDeletePatch)
                    \o SelectSeq(AllCreates(new), IsCreatePatch)

C4_Witness ==
    /\ Finished /\ RemoveInsertOnly
    /\ HasKind(result, "Delete") /\ HasKind(result, "Create")
    /\ \E i \in 1..(Len(new) - 1) : At(na, i) # None /\ At(na, i) # i
    /\ ~Distinct(new)

\* C5: output order - every Delete precedes every other patch, Deletes are
\* strictly ascending in old index, the rest is non-decreasing in new index,
\* and two patches share a new index only as Update(i) immediately followed by
\* Move(j, i); a Create shares its index with nothing.
C5_OutputOrder ==
    \A a, b \in 1..Len(result) :
        a < b =>
            /\ Kind(result[b]) = "Delete" => Kind(result[a]) = "Delete"
            /\ (Kind(result[a]) = "Delete" /\ Kind(result[b]) = "Delete")
                   => result[a][2] < result[b][2]
            /\ (Kind(result[a]) # "Delete" /\ Kind(result[b]) # "Delete")
                   => /\ NewIndex(result[a]) <= NewIndex(result[b])
                      /\ NewIndex(result[a]) = NewIndex(result[b])
                            => /\ Kind(result[a]) = "Update"
                               /\ Kind(result[b]) = "Move"
                               /\ b = a + 1

C5_Witness ==
    /\ Finished
    /\ HasKind(result, "Delete") /\ HasKind(result, "Create")
    /\ HasKind(result, "Move")

\* C6: symmetric matching - in every state, so after each of pass 3, 4 and 5,
\* newMatch[i] = j exactly when oldMatch[j] = i; the matching is a partial
\* bijection between the new and the old indices.
C6_SymmetricMatching ==
    /\ \A i \in 0..(Len(na) - 1) : At(na, i) # None => InBounds(oa, At(na, i))
    /\ \A j \in 0..(Len(oa) - 1) : At(oa, j) # None => InBounds(na, At(oa, j))
    /\ \A i \in 0..(Len(na) - 1), j \in 0..(Len(oa) - 1) :
           At(na, i) = j <=> At(oa, j) = i

C6_Witness ==
    /\ pc = "pass6"
    /\ \E i \in 0..(Len(na) - 1) : AdjacencyMatched(i) /\ At(na, i) # i
    /\ \E j \in 0..(Len(oa) - 1) : At(oa, j) = None

\* C7: diff has no failure mode - no pass panics (every table lookup hits,
\* every index is in bounds, j + createOffset - deleteOffsets[j] stays >= 0),
\* and every index in an emitted patch is a valid index of its sequence.
C7_NoFailure ==
    /\ pc # "panic"
    /\ pc = "pass3" =>
           \A i \in 0..(Len(new) - 1) :
               /\ At(new, i) \in DOMAIN table
               /\ (table[At(new, i)].nc = 1 /\ table[At(new, i)].oc = 1)
                      => table[At(new, i)].olno < Len(old)
    /\ \A a \in 1..Len(result) :
           LET p == result[a] IN
           /\ Kind(p) = "Delete" => InBounds(old, p[2])
           /\ Kind(p) \in {"Create", "Update"} => InBounds(new, p[2])
           /\ Kind(p) = "Move" => InBounds(old, p[2]) /\ InBounds(new, p[3])

C7_Witness ==
    /\ Finished
    /\ \E i \in 0..(Len(na) - 2) : At(na, i) = Len(oa) - 1
    /\ \E i \in 1..(Len(na) - 1) : At(na, i) = 0
    /\ HasKind(result, "Delete") /\ HasKind(result, "Create")

\* C8: Update is reachable - some inputs make diff emit an Update(i) (a matched
\* pair with old[j] # new[i] reaches pass 6).
C8_UpdateReachable ==
    \E o \in Inputs, n \in Inputs : HasKind(diff(o, n), "Update")

\* What the code does instead: every pair matched by passes 3 to 5 has
\* old[j] = new[i], so the Update branch of pass 6 is never taken.
C8_NoUpdate ==
    /\ Matched => \A i \in 0..(Len(na) - 1) :
                      At(na, i) # None => At(old, At(na, i)) = At(new, i)
    /\ ~HasKind(result, "Update")

C8_Witness ==
    /\ Finished
    /\ HasKind(result, "Move")
    /\ \E i \in 0..(Len(na) - 1) : AdjacencyMatched(i)

\* C9: saturation - once pass 5 has run, no matched pair can be extended
\* forward or backward, and a second run of pass 4 or pass 5 changes nothing.
ForwardExtendable(i) ==
    LET j == At(na, i) IN
    /\ j # None
    /\ i + 1 < Len(new) /\ j + 1 < Len(old)
    /\ At(na, i + 1) = None /\ At(oa, j + 1) = None
    /\ At(new, i + 1) = At(old, j + 1)

BackwardExtendable(i) ==
    LET j == At(na, i) IN
    /\ j # None
    /\ i > 0 /\ j > 0
    /\ At(na, i - 1) = None /\ At(oa, j - 1) = None
    /\ At(new, i - 1) = At(old, j - 1)

C9_Saturation ==
    Saturated =>
        /\ \A i \in 0..(Len(na) - 1) : ~ForwardExtendable(i) /\ ~BackwardExtendable(i)
        /\ pass4(old, new, oa, na) = Arrays(oa, na)
        /\ pass5(old, new, oa, na) = Arrays(oa, na)

C9_Witness ==
    /\ pc = "pass6"
    /\ \E i \in 0..(Len(na) - 2) :
           /\ AdjacencyMatched(i)
           /\ At(na, i + 1) = At(na, i) + 1
           /\ i > 0 => At(na, i - 1) = None
    /\ \E i \in 0..(Len(na) - 1) : At(na, i) = None

\* C10: mirror - the matching computed for (new, old) is the inverse of the one
\* computed for (old, new), and diff(new, old) is the mirror image of
\* diff(old, new): Delete(k) <-> Create(k), Move(j, i) <-> Move(i, j).
MirrorPatch(p) ==
    IF Kind(p) = "Delete" THEN Create(p[2])
    ELSE IF Kind(p) = "Create" THEN Delete(p[2])
    ELSE IF Kind(p) = "Move" THEN Move(p[3], p[2])
    ELSE p

PatchSet(r) == {r[a] : a \in 1..Len(r)}

C10_Mirror ==
    /\ Saturated => LET m == matching(new, old) IN
                    m.ok /\ m.na = oa /\ m.oa = na
    /\ Finished => {MirrorPatch(p) : p \in PatchSet(result)} = PatchSet(diff(new, old))

C10_Witness ==
    /\ Finished
    /\ Len(old) # Len(new)
    /\ HasKind(result, "Move")
    /\ HasKind(result, "Delete") \/ HasKind(result, "Create")
    /\ \E i \in 0..(Len(na) - 1) : AdjacencyMatched(i)

====
